---------------------------- MODULE Spec2Model ----------------------------
(***************************************************************************)
(* Model of the BIP-174 key/value map codec (psbt/psbt.go) and of the      *)
(* serialized output descriptor format layered on it (cod/cod.go).         *)
(*                                                                         *)
(* Representation:                                                         *)
(*   - a byte is a number in 0..255, a byte string a sequence of bytes;    *)
(*   - a Go slice is a record [off, b]: the offset of its first byte in    *)
(*     the buffer it views, and its bytes.  Slicing and indexing outside   *)
(*     the bounds panic; every operator that slices or indexes reports it  *)
(*     in a field named panic;                                             *)
(*   - a fixed-width unsigned integer is a sequence of 16-bit limbs, most  *)
(*     significant first (uint32: 2 limbs, uint64: 4 limbs), so that the   *)
(*     full 64-bit range is covered;                                       *)
(*   - the loops of DecodeMap, psbt.Decode and cod.Decode take one step    *)
(*     per iteration.                                                      *)
(***************************************************************************)
EXTENDS Integers, Sequences, FiniteSets, TLC

\* ------------------------------------------------------------------ bounds

\* Longest raw (untrusted) map body enumerated exhaustively.
MaxLen == 6

\* Longest raw map body of the runs checked for termination.
MaxFairLen == 2

\* Longest junk tail appended to a cut encoding.
MaxTail == 1

\* Most entries of a map that is written and read back.
MaxEntries == 2

\* Most keys of an output descriptor that is encoded and read back.
MaxKeys == 2

\* Longest entry value handed to DecodePSBTXpub on its own.
MaxValLen == 9

\* ------------------------------------------------------- program constants

GLOBAL_OUTPUT_DESCRIPTOR == 0

GLOBAL_NAME == 1

KEY_XPUB == 0

\* "desc\xff"
SerializeDescMagic == <<100, 101, 115, 99, 255>>

\* "psbt\xff"
psbtMagic == <<112, 115, 98, 116, 255>>

\* ------------------------------------------------------- bytes and slices

Byte == 0..255

\* One limb holds 16 bits.
Limb == 256 * 256

\* A fresh slice (one that views its own storage).
Bytes(b) == [off |-> 0, b |-> b]

NilSlice == Bytes(<<>>)

LenS(s) == Len(s.b)

\* s[lo:hi] of Go, in range exactly when 0 <= lo <= hi <= len(s).
InRange(s, lo, hi) == 0 <= lo /\ lo <= hi /\ hi <= LenS(s)

Slice(s, lo, hi) == [off |-> s.off + lo, b |-> SubSeq(s.b, lo + 1, hi)]

\* s[lo:]
SliceFrom(s, lo) == Slice(s, lo, LenS(s))

\* bytes.HasPrefix
HasPrefix(s, p) == Len(s.b) >= Len(p) /\ SubSeq(s.b, 1, Len(p)) = p

\* ------------------------------------------------------ unsigned integers

\* uint64(n) for an int n >= 0.
U64(n) == <<0, 0, n \div Limb, n % Limb>>

\* Unsigned comparison of two integers of the same width.
ULess(a, b) ==
    \E i \in 1..Len(a) : a[i] < b[i] /\ \A j \in 1..(i - 1) : a[j] = b[j]

ULeq(a, b) == a = b \/ ULess(a, b)

\* int(v), for a v that fits.
ToInt(v) == v[3] * Limb + v[4]

\* The two bytes of a limb, low byte first.
LimbLE(l) == <<l % 256, l \div 256>>

\* The two bytes of a limb, high byte first.
LimbBE(l) == <<l \div 256, l % 256>>

\* binary.LittleEndian.PutUint16/32/64 and AppendUint32: the limbs from the
\* least significant one, each low byte first.
RECURSIVE PutLE(_)
PutLE(v) == IF v = <<>> THEN <<>> ELSE LimbLE(v[Len(v)]) \o PutLE(SubSeq(v, 1, Len(v) - 1))

\* binary.BigEndian.AppendUint32.
RECURSIVE PutBE(_)
PutBE(v) == IF v = <<>> THEN <<>> ELSE LimbBE(v[1]) \o PutBE(Tail(v))

\* binary.LittleEndian.Uint16/32/64 of the first 2*w bytes of b (w limbs).
LEUint(b, w) == [i \in 1..w |-> b[2 * (w - i) + 1] + 256 * b[2 * (w - i) + 2]]

\* BEUint with the byte order of the path elements.
BEUint_Little(b, w) == LEUint(b, w)

\* binary.BigEndian.Uint32 of the first 2*w bytes of b.
BEUint(b, w) == [i \in 1..w |-> 256 * b[2 * i - 1] + b[2 * i]]

\* Zero-extension to uint64.
Widen(v) == [i \in 1..(4 - Len(v)) |-> 0] \o v

\* ------------------------------------------------------------ VarInt codec

\* 0xfd, 0xffff, 0xffff_ffff and the largest uint64.
Lim8 == <<0, 0, 0, 253>>

Max16 == <<0, 0, 0, 65535>>

Max32 == <<0, 0, 65535, 65535>>

MaxU64 == <<65535, 65535, 65535, 65535>>

\* writeVarInt: the bytes it appends to w.
writeVarInt(v) ==
    IF ULess(v, Lim8) THEN <<v[4] % 256>>
    ELSE IF ULeq(v, Max16) THEN PutLE(<<v[4]>>)
    ELSE IF ULeq(v, Max32) THEN PutLE(<<v[3], v[4]>>)
    ELSE PutLE(v)

NoVarInt == [v |-> U64(0), n |-> 0, panic |-> FALSE]

\* bo.UintW(data[1:]) widened to uint64, n bytes consumed; UintW panics on a
\* slice shorter than its width.
ReadVarInt(data, w, n) ==
    LET rest == SliceFrom(data, 1)
    IN  IF LenS(rest) < 2 * w
        THEN [v |-> U64(0), n |-> 0, panic |-> TRUE]
        ELSE [v |-> Widen(LEUint(rest.b, w)), n |-> n, panic |-> FALSE]

\* decodeVarInt: (value, bytes consumed), consumed = 0 for "no value".
decodeVarInt(data) ==
    IF LenS(data) = 0 THEN NoVarInt
    ELSE LET v == data.b[1]
         IN  CASE v = 253 -> IF LenS(data) < 3 THEN NoVarInt ELSE ReadVarInt(data, 1, 3)
               [] v = 254 -> IF LenS(data) < 5 THEN NoVarInt ELSE ReadVarInt(data, 2, 5)
               [] v = 255 -> IF LenS(data) < 9 THEN NoVarInt ELSE ReadVarInt(data, 4, 9)
               [] OTHER -> [v |-> U64(v), n |-> 1, panic |-> FALSE]

\* ------------------------------------------------------------- Entry codec

\* Entry.Write: the bytes it appends to w.
EntryWrite(e) ==
    writeVarInt(U64(LenS(e.Key))) \o e.Key.b \o writeVarInt(U64(LenS(e.Val))) \o e.Val.b

KeyValPanic == [key |-> NilSlice, val |-> NilSlice, n |-> 0, err |-> "panic"]

\* data[:l] and data[l:] for a uint64 l are in range when l <= len(data).
CanSliceToU(data, l) == ULeq(l, U64(LenS(data)))

SliceToU(data, l) == Slice(data, 0, ToInt(l))

\* Short without the comparison of the length with the bytes that follow.
Short_NoLength(l, rest) == l.n = 0

\* The test of decodeKeyVal on a length it has just decoded: no VarInt could
\* be read, or the length exceeds the bytes that follow it.
Short(l, rest) == l.n = 0 \/ ULess(U64(LenS(rest)), l.v)

\* Consumed without the bytes of the two length prefixes.
Consumed_NoPrefixes(n1, n2, keyLen, valLen) == ToInt(keyLen) + ToInt(valLen)

\* The count decodeKeyVal returns for an entry: n1 + n2 + int(keyLen+valLen).
\* Both lengths are at most len(data) here, so the sum does not wrap.
Consumed(n1, n2, keyLen, valLen) == n1 + n2 + ToInt(keyLen) + ToInt(valLen)

\* decodeKeyVal: (key, val, bytes consumed, err); err is "nil", "EOF"
\* (io.EOF), "ErrUnexpectedEOF" (io.ErrUnexpectedEOF), or "panic" when a
\* slice expression is out of range.
decodeKeyVal(data) ==
    LET k == decodeVarInt(data)
    IN  IF k.panic \/ ~InRange(data, k.n, LenS(data)) THEN KeyValPanic
        ELSE LET d1 == SliceFrom(data, k.n)
             IN  IF Short(k, d1)
                 THEN [key |-> NilSlice, val |-> NilSlice, n |-> 0, err |-> "EOF"]
                 ELSE IF k.v = U64(0)
                 THEN [key |-> NilSlice, val |-> NilSlice, n |-> k.n, err |-> "EOF"]
                 ELSE IF ~CanSliceToU(d1, k.v) THEN KeyValPanic
                 ELSE LET key == SliceToU(d1, k.v)
                          d2 == SliceFrom(d1, ToInt(k.v))
                          l == decodeVarInt(d2)
                      IN  IF l.panic \/ ~InRange(d2, l.n, LenS(d2)) THEN KeyValPanic
                          ELSE LET d3 == SliceFrom(d2, l.n)
                               IN  IF Short(l, d3)
                                   THEN [key |-> NilSlice, val |-> NilSlice, n |-> 0,
                                         err |-> "ErrUnexpectedEOF"]
                                   ELSE IF ~CanSliceToU(d3, l.v) THEN KeyValPanic
                                   ELSE [key |-> key, val |-> SliceToU(d3, l.v),
                                         n |-> Consumed(k.n, l.n, k.v, l.v),
                                         err |-> "nil"]

\* ------------------------------------------------------ Extended-key decoder

ZeroKey == [MasterFingerprint |-> <<0, 0>>, Path |-> <<>>, Key |-> NilSlice]

\* The loop of DecodePSBTXpub over the path: each round reads a little-endian
\* uint32 (which panics on fewer than 4 bytes) and drops 4 bytes.
RECURSIVE PathOf(_, _)
PathOf(val, path) ==
    IF LenS(val) = 0 THEN [path |-> path, panic |-> FALSE]
    ELSE IF LenS(val) < 4 THEN [path |-> path, panic |-> TRUE]
    ELSE PathOf(SliceFrom(val, 4), Append(path, LEUint(val.b, 2)))

\* DecodePSBTXpub: (ExtendedKey, err).
DecodePSBTXpub(e) ==
    LET val == e.Val
    IN  IF LenS(val) < 4 \/ LenS(val) % 4 # 0
        THEN [k |-> ZeroKey, err |-> "ErrUnexpectedEOF", panic |-> FALSE]
        ELSE IF ~InRange(e.Key, 1, LenS(e.Key)) \/ LenS(val) < 4
        THEN [k |-> ZeroKey, err |-> "nil", panic |-> TRUE]
        ELSE LET p == PathOf(SliceFrom(val, 4), <<>>)
             IN  [k |-> [MasterFingerprint |-> BEUint(val.b, 2),
                         Path |-> p.path,
                         Key |-> SliceFrom(e.Key, 1)],
                  err |-> "nil", panic |-> p.panic]

\* ------------------------------------------------------ Descriptor encoder

RECURSIVE PathBytes(_)
PathBytes(path) ==
    IF path = <<>> THEN <<>> ELSE PutLE(Head(path)) \o PathBytes(Tail(path))

\* The loop of Encode over desc.Keys: one single-entry map per key.
RECURSIVE EncodeKeys(_)
EncodeKeys(keys) ==
    IF keys = <<>> THEN <<>>
    ELSE LET k == Head(keys)
             mfpAndPath == PutBE(k.MasterFingerprint) \o PathBytes(k.Path)
         IN  EntryWrite([Key |-> Bytes(<<KEY_XPUB>> \o k.Key.b), Val |-> Bytes(mfpAndPath)])
                 \o <<0>> \o EncodeKeys(Tail(keys))

\* cod.Encode: the bytes of the buffer it returns.
Encode(desc) ==
    SerializeDescMagic
        \o EntryWrite([Key |-> Bytes(<<GLOBAL_NAME>>), Val |-> Bytes(desc.Name)])
        \o EntryWrite([Key |-> Bytes(<<GLOBAL_OUTPUT_DESCRIPTOR>>), Val |-> Bytes(desc.Descriptor)])
        \o <<0>>
        \o EncodeKeys(desc.Keys)

\* A map as its writers produce it: every entry, then the terminator.
RECURSIVE WriteEntries(_)
WriteEntries(es) ==
    IF es = <<>> THEN <<0>> ELSE EntryWrite(Head(es)) \o WriteEntries(Tail(es))

\* ------------------------------------------------------ Descriptor decoder

EmptyDesc == [Name |-> <<>>, Descriptor |-> <<>>, Keys |-> <<>>]

\* The loop of cod.Decode over the global map: e.Key[0] panics on an empty key.
RECURSIVE GlobalFields(_, _)
GlobalFields(es, desc) ==
    IF es = <<>> THEN [desc |-> desc, panic |-> FALSE]
    ELSE LET e == Head(es)
         IN  IF LenS(e.Key) = 0 THEN [desc |-> desc, panic |-> TRUE]
             ELSE LET k == e.Key.b[1]
                  IN  GlobalFields(Tail(es),
                          IF k = GLOBAL_NAME THEN [desc EXCEPT !.Name = e.Val.b]
                          ELSE IF k = GLOBAL_OUTPUT_DESCRIPTOR
                          THEN [desc EXCEPT !.Descriptor = e.Val.b]
                          ELSE desc)

\* The loop of cod.Decode over one key map, from entry i (0-based) on.
RECURSIVE KeyRecords(_, _, _)
KeyRecords(es, i, keys) ==
    IF i >= Len(es) THEN [keys |-> keys, err |-> "nil", index |-> 0, panic |-> FALSE]
    ELSE LET e == es[i + 1]
         IN  IF LenS(e.Key) = 0
             THEN [keys |-> keys, err |-> "nil", index |-> i, panic |-> TRUE]
             ELSE IF e.Key.b[1] = KEY_XPUB
             THEN LET x == DecodePSBTXpub(e)
                  IN  IF x.panic
                      THEN [keys |-> keys, err |-> "nil", index |-> i, panic |-> TRUE]
                      ELSE IF x.err # "nil"
                      THEN [keys |-> keys, err |-> "invalid key", index |-> i,
                            panic |-> FALSE]
                      ELSE KeyRecords(es, i + 1, Append(keys, x.k))
             ELSE KeyRecords(es, i + 1, Append(keys, ZeroKey))

\* The loops of psbt.Decode over a map's entries only read e.Key[0] (and
\* print): whether one of them panics.
KeysPanic(es) == \E i \in 1..Len(es) : LenS(es[i].Key) = 0

\* ------------------------------------------------------------------- state

VARIABLES
    op,      \* the entry point called
    arg,     \* its argument when it is not a byte buffer, else [none |-> TRUE]
    buf,     \* the byte buffer decoded (written by the encoder in a round trip)
    pc,      \* where the call stands
    data,    \* the envelope's remaining input: data of psbt.Decode and cod.Decode
    desc,    \* desc of cod.Decode
    ret,     \* where the running DecodeMap call returns to
    mdata,   \* data of DecodeMap
    m,       \* m of DecodeMap
    n,       \* n of DecodeMap
    mres,    \* what the last DecodeMap call returned: (entries, n, err)
    result   \* what the entry point returned

vars == <<op, arg, buf, pc, data, desc, ret, mdata, m, n, mres, result>>

NoArg == [none |-> TRUE]

NoMapResult == [m |-> <<>>, n |-> 0, err |-> "nil"]

NoResult == [none |-> TRUE]

\* ------------------------------------------------------------------ inputs

SeqsUpTo(S, k) == UNION {[1..i -> S] : i \in 0..k}

\* Bytes that matter to the map decoder: the terminator and the smallest
\* field types, small lengths, and the prefix of a 16-bit VarInt.
Alphabet == {0, 1, 4, 253}

\* The extended key of the descriptor round-trip test: fingerprint
\* 0x1234_5678 and path [0x8000_0000, 1].
TestKey ==
    [MasterFingerprint |-> <<4660, 22136>>,
     Path |-> << <<32768, 0>>, <<0, 1>> >>,
     Key |-> Bytes(<<2, 3>>)]

PlainKey == [MasterFingerprint |-> <<0, 1>>, Path |-> <<>>, Key |-> NilSlice]

TwoKeys == [Name |-> <<>>, Descriptor |-> <<>>, Keys |-> <<PlainKey, PlainKey>>]

SampleDescs == {[Name |-> <<119>>, Descriptor |-> <<100>>, Keys |-> <<TestKey>>], TwoKeys}

\* The maps of a buffer, i.e. what follows its 5-byte magic.
Body(enc) == SubSeq(enc, 6, Len(enc))

\* Every prefix of a valid encoding, followed by a short junk tail.
Damaged(b) ==
    {SubSeq(b, 1, k) \o t : k \in 0..Len(b), t \in SeqsUpTo(Alphabet, MaxTail)}

\* Untrusted map bodies: every short byte string over the alphabet, and the
\* damaged bodies of the sample descriptors.
MapInputs ==
    SeqsUpTo(Alphabet, MaxLen) \cup UNION {Damaged(Body(Encode(d))) : d \in SampleDescs}

\* Buffers that begin with neither magic, or with the other format's.
BadMagic(magic, other) ==
    {SubSeq(magic, 1, k) : k \in 0..4}
        \cup {[magic EXCEPT ![i] = 0] \o <<0>> : i \in 1..5}
        \cup {other \o <<0>>}

EnvelopeInputs(bodies, magic, other) ==
    {magic \o b : b \in bodies} \cup BadMagic(magic, other)

\* The smaller set of bodies of the runs checked for termination.
FairMapInputs == SeqsUpTo(Alphabet, MaxFairLen) \cup Damaged(Body(Encode(TwoKeys)))

\* ---------------------------------------------------------------- DecodeMap

\* A call of DecodeMap(d) that returns to r: var m []Entry; n := 0.
CallDecodeMap(d, r) ==
    /\ mdata' = d
    /\ m' = <<>>
    /\ n' = 0
    /\ ret' = r
    /\ pc' = "DecodeMap"

Panic ==
    /\ pc' = "panic"
    /\ UNCHANGED <<data, desc, ret, mdata, m, n, mres, result>>

\* One iteration of the loop of DecodeMap.
DecodeMapIter ==
    /\ pc = "DecodeMap"
    /\ UNCHANGED <<op, arg, buf>>
    /\ \E r \in {decodeKeyVal(mdata)} :
           IF r.err = "panic" \/ ~InRange(mdata, r.n, LenS(mdata)) THEN Panic
           ELSE /\ mdata' = SliceFrom(mdata, r.n)
                /\ n' = n + r.n
                /\ UNCHANGED <<data, desc, ret, result>>
                /\ IF r.err = "EOF"
                   THEN /\ mres' = [m |-> m, n |-> n + r.n, err |-> "nil"]
                        /\ pc' = ret
                        /\ m' = m
                   ELSE IF r.err # "nil"
                   THEN /\ mres' = [m |-> <<>>, n |-> n + r.n, err |-> r.err]
                        /\ pc' = ret
                        /\ m' = m
                   ELSE /\ m' = Append(m, [Key |-> r.key, Val |-> r.val])
                        /\ pc' = "DecodeMap"
                        /\ mres' = mres

\* DecodeMap called on its own.
StartDecodeMap ==
    /\ pc = "start"
    /\ op = "DecodeMap"
    /\ CallDecodeMap(buf, "top")
    /\ UNCHANGED <<op, arg, buf, data, desc, mres, result>>

ReturnDecodeMap ==
    /\ pc = "top"
    /\ result' = mres
    /\ pc' = "done"
    /\ UNCHANGED <<op, arg, buf, data, desc, ret, mdata, m, n, mres>>

\* A return of the entry point.
Return(r) ==
    /\ result' = r
    /\ pc' = "done"
    /\ UNCHANGED <<desc, ret, mdata, m, n>>

\* NoMoreMaps without the break.
NoMoreMaps_Never(cnt) == FALSE

\* The test that ends the loop over the maps that follow the global one, in
\* psbt.Decode and in cod.Decode: if n == 0 { break }.
NoMoreMaps(cnt) == cnt = 0

\* -------------------------------------------------------------- psbt.Decode

\* Verify magic, then call DecodeMap for the global map.
psbtVerifyMagic ==
    /\ pc = "start"
    /\ op = "psbt.Decode"
    /\ UNCHANGED <<op, arg, buf, mres>>
    /\ IF ~HasPrefix(buf, psbtMagic)
       THEN data' = data /\ Return([err |-> "psbt: invalid magic"])
       ELSE IF ~InRange(buf, Len(psbtMagic), LenS(buf)) THEN data' = data /\ Panic
       ELSE /\ data' = SliceFrom(buf, Len(psbtMagic))
            /\ CallDecodeMap(SliceFrom(buf, Len(psbtMagic)), "global")
            /\ UNCHANGED <<desc, result>>

\* What psbt.Decode does with a map DecodeMap returned: data = data[n:], the
\* error return, the break on n == 0 after the global map, the loop over the
\* entries, and the next call of DecodeMap.
psbtAfterMap(global) ==
    /\ UNCHANGED <<op, arg, buf, mres>>
    /\ IF ~InRange(data, mres.n, LenS(data)) THEN data' = data /\ Panic
       ELSE /\ data' = SliceFrom(data, mres.n)
            /\ IF mres.err # "nil" THEN Return([err |-> "psbt: unexpected EOF"])
               ELSE IF ~global /\ NoMoreMaps(mres.n) THEN Return([err |-> "nil"])
               ELSE IF KeysPanic(mres.m)
               THEN pc' = "panic" /\ UNCHANGED <<desc, ret, mdata, m, n, result>>
               ELSE /\ CallDecodeMap(SliceFrom(data, mres.n), "next")
                    /\ UNCHANGED <<desc, result>>

psbtGlobalMap ==
    /\ pc = "global"
    /\ op = "psbt.Decode"
    /\ psbtAfterMap(TRUE)

psbtNextMap ==
    /\ pc = "next"
    /\ op = "psbt.Decode"
    /\ psbtAfterMap(FALSE)

\* --------------------------------------------------------------- cod.Decode

codVerifyMagic ==
    /\ pc = "start"
    /\ op = "cod.Decode"
    /\ UNCHANGED <<op, arg, buf, mres>>
    /\ IF ~HasPrefix(buf, SerializeDescMagic)
       THEN data' = data /\ Return([err |-> "serdesc: invalid magic", desc |-> EmptyDesc])
       ELSE IF ~InRange(buf, Len(psbtMagic), LenS(buf)) THEN data' = data /\ Panic
       ELSE /\ data' = SliceFrom(buf, Len(psbtMagic))
            /\ CallDecodeMap(SliceFrom(buf, Len(psbtMagic)), "global")
            /\ UNCHANGED <<desc, result>>

\* Read global map: name and descriptor, then the first call for a key map.
codGlobalMap ==
    /\ pc = "global"
    /\ op = "cod.Decode"
    /\ UNCHANGED <<op, arg, buf, mres>>
    /\ IF ~InRange(data, mres.n, LenS(data)) THEN data' = data /\ Panic
       ELSE /\ data' = SliceFrom(data, mres.n)
            /\ IF mres.err # "nil"
               THEN /\ Return([err |-> "serdesc: unexpected EOF", desc |-> EmptyDesc])
               ELSE LET g == GlobalFields(mres.m, EmptyDesc)
                    IN  IF g.panic
                        THEN pc' = "panic" /\ UNCHANGED <<desc, ret, mdata, m, n, result>>
                        ELSE /\ desc' = g.desc
                             /\ CallDecodeMap(SliceFrom(data, mres.n), "next")
                             /\ result' = result

\* Read keys: one iteration of the loop over the key maps.
codNextMap ==
    /\ pc = "next"
    /\ op = "cod.Decode"
    /\ UNCHANGED <<op, arg, buf, mres>>
    /\ IF ~InRange(data, mres.n, LenS(data)) THEN data' = data /\ Panic
       ELSE /\ data' = SliceFrom(data, mres.n)
            /\ IF mres.err # "nil"
               THEN Return([err |-> "serdesc: unexpected EOF", desc |-> EmptyDesc])
               ELSE IF NoMoreMaps(mres.n) THEN Return([err |-> "nil", desc |-> desc])
               ELSE LET k == KeyRecords(mres.m, 0, desc.Keys)
                    IN  IF k.panic
                        THEN pc' = "panic" /\ UNCHANGED <<desc, ret, mdata, m, n, result>>
                        ELSE IF k.err # "nil"
                        THEN Return([err |-> "serdesc: invalid key: unexpected EOF",
                                     index |-> k.index, desc |-> EmptyDesc])
                        ELSE /\ desc' = [desc EXCEPT !.Keys = k.keys]
                             /\ CallDecodeMap(SliceFrom(data, mres.n), "next")
                             /\ result' = result

\* ---------------------------------------------------- untrusted input: Spec

\* A call of one of the three decoders on an untrusted buffer.
InitOn(bodies) ==
    /\ op \in {"DecodeMap", "psbt.Decode", "cod.Decode"}
    /\ arg = NoArg
    /\ buf \in {Bytes(b) : b \in
                  CASE op = "DecodeMap" -> bodies
                    [] op = "psbt.Decode" ->
                           EnvelopeInputs(bodies, psbtMagic, SerializeDescMagic)
                    [] op = "cod.Decode" ->
                           EnvelopeInputs(bodies, SerializeDescMagic, psbtMagic)}
    /\ pc = "start"
    /\ data = NilSlice
    /\ desc = EmptyDesc
    /\ ret = "top"
    /\ mdata = NilSlice
    /\ m = <<>>
    /\ n = 0
    /\ mres = NoMapResult
    /\ result = NoResult

Init == InitOn(MapInputs)

Next ==
    \/ StartDecodeMap
    \/ DecodeMapIter
    \/ ReturnDecodeMap
    \/ psbtVerifyMagic
    \/ psbtGlobalMap
    \/ psbtNextMap
    \/ codVerifyMagic
    \/ codGlobalMap
    \/ codNextMap

Spec == Init /\ [][Next]_vars

\* A started call runs on to its end: the code is sequential and nothing
\* suspends it.
FairSpec == InitOn(FairMapInputs) /\ [][Next]_vars /\ WF_vars(Next)

\* ------------------------------------------- encoders and readers: CodecSpec

\* A text of k bytes.
Text(k) == [i \in 1..k |-> 97]

\* Lengths on both sides of the first VarInt boundary, 0xfd.
Lengths == {0, 1, ToInt(Lim8) - 1, ToInt(Lim8)}

Texts == {Text(k) : k \in Lengths}

KeySet == {TestKey, PlainKey, [TestKey EXCEPT !.Path = << <<0, 1>> >>]}

Descs ==
    {[Name |-> nm, Descriptor |-> d, Keys |-> ks] :
        nm \in Texts, d \in Texts, ks \in SeqsUpTo(KeySet, MaxKeys)}

EntrySet ==
    {[Key |-> Bytes(k), Val |-> Bytes(v)] :
        k \in {<<0>>, <<1, 2>>, Text(ToInt(Lim8))}, v \in {<<>>, <<7>>, Text(ToInt(Lim8))}}

\* The values of the VarInt round-trip test.
VarInts ==
    {U64(0), U64(252), Lim8, Max16, <<0, 0, 1, 0>>, Max32, <<0, 1, 0, 0>>, MaxU64}

\* Entries with a non-empty key and every short value over two bytes.
XpubEntries ==
    {[Key |-> Bytes(k), Val |-> Bytes(v)] :
        k \in {<<0>>, <<0, 2, 3>>}, v \in SeqsUpTo({1, 128}, MaxValLen)}

\* cod.Encode, whose buffer is then handed to cod.Decode.
codEncode ==
    /\ pc = "encode"
    /\ op = "cod.Decode"
    /\ buf' = Bytes(Encode(arg.desc))
    /\ pc' = "start"
    /\ UNCHANGED <<op, arg, data, desc, ret, mdata, m, n, mres, result>>

\* Entry.Write of every entry and the terminator, then handed to DecodeMap.
WriteMap ==
    /\ pc = "encode"
    /\ op = "DecodeMap"
    /\ buf' = Bytes(WriteEntries(arg.entries))
    /\ pc' = "start"
    /\ UNCHANGED <<op, arg, data, desc, ret, mdata, m, n, mres, result>>

WriteVarInt ==
    /\ pc = "encode"
    /\ op = "decodeVarInt"
    /\ buf' = Bytes(writeVarInt(arg.v))
    /\ pc' = "start"
    /\ UNCHANGED <<op, arg, data, desc, ret, mdata, m, n, mres, result>>

CallDecodeVarInt ==
    /\ pc = "start"
    /\ op = "decodeVarInt"
    /\ result' = decodeVarInt(buf)
    /\ pc' = "done"
    /\ UNCHANGED <<op, arg, buf, data, desc, ret, mdata, m, n, mres>>

CallDecodePSBTXpub ==
    /\ pc = "start"
    /\ op = "DecodePSBTXpub"
    /\ result' = DecodePSBTXpub(arg.entry)
    /\ pc' = "done"
    /\ UNCHANGED <<op, arg, buf, data, desc, ret, mdata, m, n, mres>>

CodecInit ==
    /\ op \in {"cod.Decode", "DecodeMap", "decodeVarInt", "DecodePSBTXpub"}
    /\ arg \in CASE op = "cod.Decode" -> {[desc |-> d] : d \in Descs}
                 [] op = "DecodeMap" ->
                        {[entries |-> es] : es \in SeqsUpTo(EntrySet, MaxEntries)}
                 [] op = "decodeVarInt" -> {[v |-> v] : v \in VarInts}
                 [] op = "DecodePSBTXpub" -> {[entry |-> e] : e \in XpubEntries}
    /\ buf = NilSlice
    /\ pc = IF op = "DecodePSBTXpub" THEN "start" ELSE "encode"
    /\ data = NilSlice
    /\ desc = EmptyDesc
    /\ ret = "top"
    /\ mdata = NilSlice
    /\ m = <<>>
    /\ n = 0
    /\ mres = NoMapResult
    /\ result = NoResult

CodecNext ==
    \/ codEncode
    \/ WriteMap
    \/ WriteVarInt
    \/ CallDecodeVarInt
    \/ CallDecodePSBTXpub
    \/ StartDecodeMap
    \/ DecodeMapIter
    \/ ReturnDecodeMap
    \/ codVerifyMagic
    \/ codGlobalMap
    \/ codNextMap

CodecSpec == CodecInit /\ [][CodecNext]_vars

\* ------------------------------------------------------------------ claims

Envelopes == {"psbt.Decode", "cod.Decode"}

Magic == IF op = "psbt.Decode" THEN psbtMagic ELSE SerializeDescMagic

InvalidMagic == IF op = "psbt.Decode" THEN "psbt: invalid magic" ELSE "serdesc: invalid magic"

TruncationError ==
    IF op = "psbt.Decode" THEN "psbt: unexpected EOF" ELSE "serdesc: unexpected EOF"

\* DecodeMap has just returned to its caller.
Returned == pc \in {"top", "global", "next"}

\* The argument of the DecodeMap call that is running or has just returned.
MapArg == IF op = "DecodeMap" THEN buf ELSE data

\* An entry boundary with bytes remaining whose key length cannot be decoded
\* or exceeds the bytes that follow it.
TruncatedKey(d) ==
    /\ LenS(d) > 0
    /\ LET k == decodeVarInt(d)
       IN  k.n = 0 \/ ULess(U64(LenS(d) - k.n), k.v)

\* The size of a VarInt by its first byte (the wire format's table).
Width(first) ==
    CASE first = 253 -> 3 [] first = 254 -> 5 [] first = 255 -> 9 [] OTHER -> 1

\* C2: no call indexes or slices past the end of a buffer (no step panics),
\* every count a caller advances by is at most the bytes it has left, every
\* entry DecodeMap holds or returns has a non-empty key, and a finished call
\* has returned a value or an error.
NoOutOfBounds ==
    /\ pc # "panic"
    /\ \A i \in 1..Len(m) : LenS(m[i].Key) > 0
    /\ \A i \in 1..Len(mres.m) : LenS(mres.m[i].Key) > 0
    /\ pc = "DecodeMap" => decodeKeyVal(mdata).n <= LenS(mdata)
    /\ Returned => mres.n <= LenS(MapArg)
    /\ pc = "done" => "err" \in DOMAIN result

\* C2 witness: cod.Decode has decoded an extended key (Key[0] and Key[1:]
\* were read) from a buffer that ends in a key length larger than the bytes
\* left.
NoOutOfBoundsWitness ==
    /\ pc = "done"
    /\ op = "cod.Decode"
    /\ result.err = "nil"
    /\ \E i \in 1..Len(result.desc.Keys) : result.desc.Keys[i] # ZeroKey
    /\ TruncatedKey(data)

\* C3: when DecodeMap stands at an entry boundary with bytes remaining and the
\* key length cannot be decoded or exceeds the bytes after it, DecodeMap
\* returns an error and no entries.
TruncatedKeyFails ==
    [][(pc = "DecodeMap" /\ TruncatedKey(mdata)) =>
           (pc' = ret /\ mres'.err # "nil" /\ mres'.m = <<>>)]_vars

\* C4: an envelope rejects a buffer without its magic with the invalid-magic
\* error before any map is decoded, and a buffer with its magic whose map is
\* cut short (the value of an entry, or the key of the entry the last call of
\* DecodeMap began with) with the truncation error; neither returns success.
MagicVersusMapErrors ==
    (pc = "done" /\ op \in Envelopes) =>
        /\ ~HasPrefix(buf, Magic) => (result.err = InvalidMagic /\ mres = NoMapResult)
        /\ HasPrefix(buf, Magic) => result.err # InvalidMagic
        /\ (HasPrefix(buf, Magic) /\ mres.err # "nil") => result.err = TruncationError
        /\ (HasPrefix(buf, Magic) /\ mres.n = 0 /\ TruncatedKey(mdata)) =>
               result.err = TruncationError

\* C8: a successful decode of an envelope leaves no input byte unconsumed.
DecodesUntilExhausted ==
    (pc = "done" /\ op \in Envelopes /\ result.err = "nil") => LenS(data) = 0

\* Where entry i of es begins: where the call's argument begins, or where the
\* entry before it ends.
EntryStart(es, i) ==
    IF i = 1 THEN MapArg.off ELSE es[i - 1].Val.off + LenS(es[i - 1].Val)

\* The VarInt at offset o of the buffer, which must hold the length len.
LengthAt(o, len) ==
    /\ o < LenS(buf)
    /\ decodeVarInt(SliceFrom(buf, o)).n = Width(buf.b[o + 1])
    /\ decodeVarInt(SliceFrom(buf, o)).v = U64(len)

\* The slice s views the buffer.
Views(s) ==
    /\ s.off + LenS(s) <= LenS(buf)
    /\ s.b = SubSeq(buf.b, s.off + 1, s.off + LenS(s))

\* Entry i of es is varint(keyLen), key, varint(valLen), val, one right after
\* the other, from where the entry before it ends.
Accounted(es, i) ==
    LET e == es[i]
    IN  /\ LengthAt(EntryStart(es, i), LenS(e.Key))
        /\ e.Key.off = EntryStart(es, i) + Width(buf.b[EntryStart(es, i) + 1])
        /\ Views(e.Key)
        /\ LengthAt(e.Key.off + LenS(e.Key), LenS(e.Val))
        /\ e.Val.off = e.Key.off + LenS(e.Key) + Width(buf.b[e.Key.off + LenS(e.Key) + 1])
        /\ Views(e.Val)

\* The bytes of the terminator after the entries es: the size of the VarInt
\* there when it is a zero key length, else none.
TerminatorSize(es) ==
    LET o == EntryStart(es, Len(es) + 1)
    IN  IF o < LenS(buf) /\ LengthAt(o, 0) THEN Width(buf.b[o + 1]) ELSE 0

\* C9: on a successful return of DecodeMap the entries are consecutive slices
\* of its argument from offset 0, each of varint(keyLen) + keyLen +
\* varint(valLen) + valLen bytes; the count returned is the sum of the entry
\* sizes plus the terminator's bytes when one was read, never exceeds the
\* argument's length, and is 0 only with no entry and no terminator.
ByteAccounting ==
    (Returned /\ mres.err = "nil") =>
        /\ \A i \in 1..Len(mres.m) : Accounted(mres.m, i)
        /\ mres.n = EntryStart(mres.m, Len(mres.m) + 1) - MapArg.off
                        + TerminatorSize(mres.m)
        /\ mres.n <= LenS(MapArg)
        /\ mres.n = 0 => (mres.m = <<>> /\ TerminatorSize(mres.m) = 0)

\* C9 witness: DecodeMap returned two entries and read a terminator, with
\* bytes left after it.
ByteAccountingWitness ==
    /\ Returned
    /\ mres.err = "nil"
    /\ Len(mres.m) = 2
    /\ TerminatorSize(mres.m) > 0
    /\ mres.n < LenS(MapArg)

\* An iteration of the loop of DecodeMap consumes a byte or returns.
MapLoopProgress ==
    pc = "DecodeMap" => (pc' = ret \/ LenS(mdata') < LenS(mdata))

\* An iteration of the loop over the maps consumes a byte, returns an error,
\* or breaks because the map decode consumed nothing.
EnvelopeLoopProgress ==
    pc = "next" =>
        \/ LenS(data') < LenS(data)
        \/ pc' = "done" /\ (result'.err # "nil" \/ mres.n = 0)

\* C10: every call terminates, and each loop iteration makes the progress
\* that bounds the number of iterations by the buffer's length.
Termination ==
    /\ <>(pc = "done")
    /\ [][MapLoopProgress /\ EnvelopeLoopProgress]_vars

\* C10 witness: cod.Decode has finished after going twice around its loop
\* over the key maps.
TerminationWitness ==
    /\ pc = "done"
    /\ op = "cod.Decode"
    /\ result.err = "nil"
    /\ Len(result.desc.Keys) >= 2

\* An extended key without where its key bytes lie in a buffer.
KeyValue(k) == [MasterFingerprint |-> k.MasterFingerprint, Path |-> k.Path, Key |-> k.Key.b]

\* An entry without where its bytes lie in a buffer.
EntryValue(e) == [Key |-> e.Key.b, Val |-> e.Val.b]

\* C1: decoding what cod.Encode wrote returns no error and the descriptor
\* that was encoded: name, descriptor, and the keys in order, each with its
\* fingerprint, path and key bytes.
DescriptorRoundTrip ==
    (pc = "done" /\ op = "cod.Decode") =>
        /\ result.err = "nil"
        /\ result.desc.Name = arg.desc.Name
        /\ result.desc.Descriptor = arg.desc.Descriptor
        /\ Len(result.desc.Keys) = Len(arg.desc.Keys)
        /\ \A i \in 1..Len(arg.desc.Keys) :
               KeyValue(result.desc.Keys[i]) = KeyValue(arg.desc.Keys[i])

\* C5: DecodeMap on the entries written by Entry.Write and a terminator
\* returns no error, the entries in order, and the full encoded length.
MapRoundTrip ==
    (pc = "done" /\ op = "DecodeMap") =>
        /\ result.err = "nil"
        /\ Len(result.m) = Len(arg.entries)
        /\ \A i \in 1..Len(arg.entries) :
               EntryValue(result.m[i]) = EntryValue(arg.entries[i])
        /\ result.n = LenS(buf)

\* The length of the smallest VarInt form that holds v.
VarIntSize(v) ==
    IF ULeq(v, U64(252)) THEN 1
    ELSE IF ULeq(v, Max16) THEN 3
    ELSE IF ULeq(v, Max32) THEN 5
    ELSE 9

\* C6: decodeVarInt on the bytes writeVarInt wrote for v returns v and the
\* number of bytes written, which is 1, 3, 5 or 9 by the range of v.
VarIntRoundTrip ==
    (pc = "done" /\ op = "decodeVarInt") =>
        /\ result.v = arg.v
        /\ result.n = LenS(buf)
        /\ LenS(buf) = VarIntSize(arg.v)

\* The 32-bit number whose bytes are b0 (least significant) to b3.
Num32(b0, b1, b2, b3) == <<256 * b3 + b2, 256 * b1 + b0>>

============================================================================
